---- MODULE Spec2Model ----
(***************************************************************************)
(* A model of scripts/build.py: the safety-gated file operations           *)
(* (SafeFileOps), the deferred command queue (RemoteCommandWrapper) and    *)
(* the release pipeline (ModBuilder.run).                                  *)
(*                                                                         *)
(* A Python str is the sequence of its characters.  A path is the sequence *)
(* of its components below the filesystem root: <<>> is "/" and            *)
(* <<s_a, s_p>> is "/a/p".  A spelled path may hold ".." components and    *)
(* may run through symbolic links; Resolve gives its canonical form as     *)
(* pathlib's Path.resolve() does.                                          *)
(***************************************************************************)
EXTENDS Integers, Sequences, FiniteSets, TLC

VARIABLES
    project_dir,        \* SafeFileOps.project_dir, ModBuilder.project_dir (canonical)
    output_dir,         \* SafeFileOps.output_dir, ModBuilder.output_dir
    fs,                 \* the filesystem: canonical path -> node
    pre_fs,             \* history: the filesystem before the last file-layer call
    last,               \* history: the last file-layer call and its outcome
    nops,               \* number of file-layer calls made so far
    skip_factorio,      \* --skip-factorio
    skip_clean,         \* --skip-clean
    factorio_path,      \* --factorio-path
    tags,               \* the tags of the repository, as git tag -l reports them
    pc,                 \* the stage ModBuilder.run is about to enter, or how it ended
    version,            \* ModBuilder.version
    previous_version,   \* ModBuilder.previous_version
    mod_name,           \* ModBuilder.mod_name
    zip_name,           \* ModBuilder.zip_name
    backup_name,        \* ModBuilder.backup_name
    commands,           \* RemoteCommandWrapper.commands
    executed,           \* history: the argv of every subprocess.run, in order
    transcript,         \* what print_all_commands has printed, line by line
    renders,            \* history: the number of times print_all_commands printed
    fs_log,             \* history: every filesystem mutation and the code that made it
    entered,            \* history: the stages entered, in order
    answer,             \* what the user typed at the confirmation prompt
    error,              \* the exception that ended the run
    exit_status         \* the process exit status, -1 while running

layerVars == <<project_dir, output_dir, fs, pre_fs, last, nops>>
runVars == <<skip_factorio, skip_clean, factorio_path, tags, pc, version,
             previous_version, mod_name, zip_name, backup_name, commands, executed,
             transcript, renders, fs_log, entered, answer, error, exit_status>>
vars == <<layerVars, runVars>>

----------------------------------------------------------------------------
(* Bounds of the model. *)

\* longest spelled path handed to the validators
MaxPathLen == 4
\* longest sequence of file-operation calls
MaxOps == 2

----------------------------------------------------------------------------
(* Strings. *)

\* None
None == <<"None">>

s_dotdot == <<".", ".">>
s_git == <<".", "g", "i", "t">>
s_HEAD == <<"H", "E", "A", "D">>
s_a == <<"a">>
s_p == <<"p">>
s_p2 == <<"p", "2">>
s_f == <<"f">>
s_d == <<"d">>
s_g == <<"g">>
s_l == <<"l">>
s_up == <<"u", "p">>
s_new == <<"n", "e", "w">>
s_sub == <<"s", "u", "b">>
s_x == <<"x">>
s_out_zip == <<"o", "u", "t", ".", "z", "i", "p">>
s_elsewhere == <<"e">>
s_ref == <<"r", "e", "f">>
s_orig == <<"o", "r", "i", "g">>

s_info_json == <<"i", "n", "f", "o", ".", "j", "s", "o", "n">>
s_changelog_txt == <<"c", "h", "a", "n", "g", "e", "l", "o", "g", ".", "t", "x", "t">>
s_scripts == <<"s", "c", "r", "i", "p", "t", "s">>
s_build_py == <<"b", "u", "i", "l", "d", ".", "p", "y">>
s_tmp == <<"t", "m", "p">>
s_changes_txt == <<"c", "h", "a", "n", "g", "e", "s", ".", "t", "x", "t">>
s_old_zip == <<"o", "l", "d", ".", "z", "i", "p">>
s_factorio == <<"f", "a", "c", "t", "o", "r", "i", "o">>
s_mod == <<"m", "o", "d">>
s_x_mod == <<"x", "/", "m", "o", "d">>
s_v == <<"v">>
s_underscore == <<"_">>
s_dot_zip == <<".", "z", "i", "p">>
s_dot_7z == <<".", "7", "z">>
s_tilde == <<"~">>
s_backup_7z == <<"_", "b", "a", "c", "k", "u", "p", ".", "7", "z">>
s_Version_colon == <<"V", "e", "r", "s", "i", "o", "n", ":">>
s_dashes == <<"-", "-", "-", "-">>
s_two_spaces == <<" ", " ">>
s_7z == <<"7", "z">>
s_7za == <<"7", "z", "a">>
s_help == <<"-", "-", "h", "e", "l", "p">>
s_dot == <<".">>
s_xr_git == <<"-", "x", "r", "!", ".", "g", "i", "t">>
s_xr_zip == <<"-", "x", "r", "!", "*", ".", "z", "i", "p">>
s_xr_7z == <<"-", "x", "r", "!", "*", ".", "7", "z">>
s_git_cmd == <<"g", "i", "t">>
s_tag == <<"t", "a", "g">>
s_dash_l == <<"-", "l">>
s_dash_a == <<"-", "a">>
s_dash_m == <<"-", "m">>
s_Release == <<"R", "e", "l", "e", "a", "s", "e", " ">>
s_push == <<"p", "u", "s", "h">>
s_origin == <<"o", "r", "i", "g", "i", "n">>
s_gh == <<"g", "h">>
s_version_flag == <<"-", "-", "v", "e", "r", "s", "i", "o", "n">>
s_release == <<"r", "e", "l", "e", "a", "s", "e">>
s_create == <<"c", "r", "e", "a", "t", "e">>
s_dash_t == <<"-", "t">>
s_Version_sp == <<"V", "e", "r", "s", "i", "o", "n", " ">>
s_dash_F == <<"-", "F">>
s_Create_tag == <<"C", "r", "e", "a", "t", "e", " ", "t", "a", "g", " ">>
s_Push_tag == <<"P", "u", "s", "h", " ", "t", "a", "g", " ", "t", "o", " ", "r", "e", "m", "o", "t", "e">>
s_Create_release == <<"C", "r", "e", "a", "t", "e", " ", "G", "i", "t", "H", "u", "b", " ", "r", "e", "l", "e", "a", "s", "e", " ", "f", "o", "r", " ">>
s_y == <<"y">>
s_yes == <<"y", "e", "s">>
\* "="*70, shortened
s_banner == <<"=", "=", "=", "=", "=", "=">>
s_REMOTE == <<"R", "E", "M", "O", "T", "E", " ", "C", "O", "M", "M", "A", "N", "D", "S", " ", "T", "O", " ", "R", "U", "N", " ", "M", "A", "N", "U", "A", "L", "L", "Y", ":">>
s_cd == <<"c", "d", " ">>
s_hash == <<"#", " ">>
s_200 == <<"2", ".", "0", ".", "0">>
s_v200 == <<"v", "2", ".", "0", ".", "0">>
s_201 == <<"2", ".", "0", ".", "1">>
s_100 == <<"1", ".", "0", ".", "0">>
s_v100 == <<"v", "1", ".", "0", ".", "0">>
s_12 == <<"1", ".", "2">>

\* str.startswith
StartsWith(s, prefix) ==
    Len(s) >= Len(prefix) /\ SubSeq(s, 1, Len(prefix)) = prefix

\* str.endswith
EndsWith(s, suffix) ==
    Len(s) >= Len(suffix) /\ SubSeq(s, Len(s) - Len(suffix) + 1, Len(s)) = suffix

Digits == {"0", "1", "2", "3", "4", "5", "6", "7", "8", "9"}
\* what str.isspace, str.strip and the pattern \s take for white space
Whitespace == {" ", "\t", "\n", "\r", "\f"}

\* str.lower, one character
LowerChar(c) ==
    CASE c = "A" -> "a"
      [] c = "B" -> "b"
      [] c = "C" -> "c"
      [] c = "D" -> "d"
      [] c = "E" -> "e"
      [] c = "F" -> "f"
      [] c = "G" -> "g"
      [] c = "H" -> "h"
      [] c = "I" -> "i"
      [] c = "J" -> "j"
      [] c = "K" -> "k"
      [] c = "L" -> "l"
      [] c = "M" -> "m"
      [] c = "N" -> "n"
      [] c = "O" -> "o"
      [] c = "P" -> "p"
      [] c = "Q" -> "q"
      [] c = "R" -> "r"
      [] c = "S" -> "s"
      [] c = "T" -> "t"
      [] c = "U" -> "u"
      [] c = "V" -> "v"
      [] c = "W" -> "w"
      [] c = "X" -> "x"
      [] c = "Y" -> "y"
      [] c = "Z" -> "z"
      [] OTHER -> c

\* str.lower
Lower(s) == [i \in 1..Len(s) |-> LowerChar(s[i])]

RECURSIVE SkipWhile(_, _, _)
\* the first position from i on whose character is not in C
SkipWhile(s, i, C) ==
    IF i <= Len(s) /\ s[i] \in C THEN SkipWhile(s, i + 1, C) ELSE i

RECURSIVE SkipBack(_, _, _)
\* the last position up to i whose character is not in C
SkipBack(s, i, C) ==
    IF i >= 1 /\ s[i] \in C THEN SkipBack(s, i - 1, C) ELSE i

\* str.strip
Strip(s) == SubSeq(s, SkipWhile(s, 1, Whitespace), SkipBack(s, Len(s), Whitespace))

\* s holds w from position i on
HasAt(s, i, w) == i + Len(w) - 1 <= Len(s) /\ SubSeq(s, i, i + Len(w) - 1) = w

RECURSIVE SplitAt(_, _, _)
\* str.split(sep) for a one-character separator, from position i on
SplitAt(s, i, sep) ==
    LET j == SkipWhile(s, i, {c \in {s[k] : k \in 1..Len(s)} : c # sep})
    IN  IF j > Len(s) THEN <<SubSeq(s, i, Len(s))>>
        ELSE <<SubSeq(s, i, j - 1)>> \o SplitAt(s, j + 1, sep)

RECURSIVE Concat(_)
\* ''.join(parts)
Concat(parts) == IF parts = <<>> THEN <<>> ELSE Head(parts) \o Concat(Tail(parts))

RECURSIVE SplitLines(_, _)
\* file.readlines(): the lines from position i on, each with its line break
SplitLines(s, i) ==
    IF i > Len(s) THEN <<>>
    ELSE LET j == SkipWhile(s, i, {c \in {s[k] : k \in 1..Len(s)} : c # "\n"})
         IN  IF j > Len(s) THEN <<SubSeq(s, i, Len(s))>>
             ELSE <<SubSeq(s, i, j)>> \o SplitLines(s, j + 1)

----------------------------------------------------------------------------
(* Paths (pathlib). *)

\* Path.parent: the root is its own parent
Parent(p) == IF p = <<>> THEN <<>> ELSE SubSeq(p, 1, Len(p) - 1)

\* Path.name
Name(p) == IF p = <<>> THEN <<>> ELSE p[Len(p)]

RECURSIVE Components(_)
\* the components of a relative path string: empty and "." parts are dropped
Components(parts) ==
    IF parts = <<>> THEN <<>>
    ELSE IF Head(parts) \in {<<>>, s_dot} THEN Components(Tail(parts))
    ELSE <<Head(parts)>> \o Components(Tail(parts))

\* dir / name: name is split at "/", and an absolute name replaces dir
PathJoin(dir, name) ==
    IF StartsWith(name, <<"/">>) THEN Components(SplitAt(name, 1, "/"))
    ELSE dir \o Components(SplitAt(name, 1, "/"))

RECURSIVE PathStr(_)
\* str(path) of a path below the root: "/a/p"
PathStr(p) ==
    IF p = <<>> THEN <<>> ELSE PathStr(Parent(p)) \o <<"/">> \o Name(p)

\* a comparison of the paths as strings: "/a/p2" starts with "/a/p"
IsRelativeTo_StringPrefix(p, root) == StartsWith(PathStr(p), PathStr(root))

\* PurePath.relative_to(root) does not raise ValueError: the components of
\* root are the first components of p
IsRelativeTo(p, root) ==
    Len(p) >= Len(root) /\ SubSeq(p, 1, Len(root)) = root

----------------------------------------------------------------------------
(* The filesystem. *)

NoJson == [has_name |-> FALSE, name |-> <<>>, has_version |-> FALSE, version |-> <<>>]

\* what a file holds: text, or the object a JSON file parses to, or the
\* entries of an archive
Text(s) == [text |-> s, json |-> NoJson, entries |-> {}]
Json(j) == [text |-> <<>>, json |-> j, entries |-> {}]
Archive(paths) == [text |-> <<>>, json |-> NoJson, entries |-> paths]

DirNode == [kind |-> "dir", data |-> Text(<<>>), target |-> <<>>]
FileNode(c) == [kind |-> "file", data |-> c, target |-> <<>>]
\* a symbolic link with an absolute target
LinkNode(t) == [kind |-> "link", data |-> Text(<<>>), target |-> t]

\* os.path.lexists
Exists(f, p) == p \in DOMAIN f
\* os.path.islink
IsLink(f, p) == p \in DOMAIN f /\ f[p].kind = "link"

RECURSIVE Walk(_, _, _)
\* os.path.realpath, not strict: components left to right, ".." steps to the
\* parent of what is resolved so far, a symbolic link is replaced by its
\* target, a missing component is kept as spelled
Walk(f, cur, rest) ==
    IF rest = <<>> THEN cur
    ELSE LET n == Head(rest)
             r == Tail(rest)
         IN  IF n = s_dotdot THEN Walk(f, Parent(cur), r)
             ELSE IF IsLink(f, Append(cur, n))
                  THEN Walk(f, <<>>, f[Append(cur, n)].target \o r)
                  ELSE Walk(f, Append(cur, n), r)

\* Path.resolve()
Resolve(f, p) == Walk(f, <<>>, p)

\* Path.exists(), Path.is_file(), Path.is_dir(): follow links, FALSE when missing
PathExists(f, p) == Resolve(f, p) \in DOMAIN f
IsFile(f, p) == LET r == Resolve(f, p) IN r \in DOMAIN f /\ f[r].kind = "file"
IsDir(f, p) == LET r == Resolve(f, p) IN r \in DOMAIN f /\ f[r].kind = "dir"

\* the nodes at or beneath p
Subtree(f, p) == {q \in DOMAIN f : IsRelativeTo(q, p)}
\* the filesystem without the nodes S, and with node at p
Without(f, S) == [q \in (DOMAIN f) \ S |-> f[q]]
With(f, p, node) == [q \in (DOMAIN f) \cup {p} |-> IF q = p THEN node ELSE f[q]]

----------------------------------------------------------------------------
(* SafeFileOps: the validators. *)

\* self.project_dir / ".git"
GitDir == project_dir \o <<s_git>>

\* _is_git_path with the equality test alone
_is_git_path_EqualityOnly(f, path) ==
    Resolve(f, path) = Resolve(f, GitDir)

\* SafeFileOps._is_git_path
_is_git_path(f, path) ==
    LET resolved == Resolve(f, path)
        git_dir == Resolve(f, GitDir)
    IN  resolved = git_dir \/ IsRelativeTo(resolved, git_dir)

\* how a call ends: it returns, or raises kind (BuildError, OSError) for a reason
Returned(f, t) == [res |-> "ok", err |-> "", fs |-> f, target |-> t]
Raised(kind, why, f, t) == [res |-> kind, err |-> why, fs |-> f, target |-> t]

\* SafeFileOps._validate_path_in_project
_validate_path_in_project(f, path, allow_git) ==
    LET resolved == Resolve(f, path)
    IN  IF ~IsRelativeTo(resolved, project_dir)
        THEN Raised("BuildError", "outside project", f, resolved)
        ELSE IF ~allow_git /\ _is_git_path(f, resolved)
        THEN Raised("BuildError", "git", f, resolved)
        ELSE Returned(f, resolved)

\* SafeFileOps._validate_path_in_output
_validate_path_in_output(f, path) ==
    LET resolved == Resolve(f, path)
    IN  IF ~IsRelativeTo(resolved, output_dir)
        THEN Raised("BuildError", "outside output", f, resolved)
        ELSE IF Parent(resolved) # output_dir
        THEN Raised("BuildError", "not direct child", f, resolved)
        ELSE Returned(f, resolved)

----------------------------------------------------------------------------
(* SafeFileOps: the four operations. *)

\* a safe_unlink that removes the validated target whatever it is
ThenUnlink_Unchecked(f, validated) ==
    IF validated.res # "ok" THEN validated
    ELSE Returned(Without(f, {validated.target}), validated.target)

\* safe_unlink once the validation has ended as validated
ThenUnlink(f, validated) ==
    IF validated.res # "ok" THEN validated
    ELSE IF ~IsFile(f, validated.target)
    THEN Raised("BuildError", "not a file", f, validated.target)
    ELSE Returned(Without(f, {validated.target}), validated.target)

\* SafeFileOps.safe_unlink
safe_unlink(f, path) == ThenUnlink(f, _validate_path_in_project(f, path, FALSE))

\* safe_rmtree once the validation has ended as validated
ThenRmtree(f, validated) ==
    IF validated.res # "ok" THEN validated
    ELSE IF ~IsDir(f, validated.target)
    THEN Raised("BuildError", "not a directory", f, validated.target)
    ELSE Returned(Without(f, Subtree(f, validated.target)), validated.target)

\* SafeFileOps.safe_rmtree
safe_rmtree(f, path) == ThenRmtree(f, _validate_path_in_project(f, path, FALSE))

\* open(p, 'w') and write(content): the file is created or truncated
OpenWrite(f, p, content) ==
    LET r == Resolve(f, p)
    IN  IF IsDir(f, r)
        THEN Raised("OSError", "is a directory", f, p)
        ELSE IF ~IsDir(f, Parent(r))
        THEN Raised("OSError", "no parent directory", f, p)
        ELSE Returned(With(f, r, FileNode(content)), p)

\* safe_write once the validation has ended as validated
ThenWrite(f, validated, content) ==
    IF validated.res # "ok" THEN validated
    ELSE OpenWrite(f, validated.target, Text(content))

\* SafeFileOps.safe_write
safe_write(f, path, content) ==
    LET resolved == Resolve(f, path)
    IN  ThenWrite(f,
                  IF IsRelativeTo(resolved, project_dir)
                  THEN _validate_path_in_project(f, path, FALSE)
                  ELSE IF IsRelativeTo(resolved, output_dir)
                  THEN _validate_path_in_output(f, path)
                  ELSE Raised("BuildError", "not in allowed locations", f, resolved),
                  content)

RECURSIVE Mkdir(_, _, _, _)
\* Path.mkdir(parents, exist_ok)
Mkdir(f, p, parents, exist_ok) ==
    IF Exists(f, p)
    THEN IF exist_ok /\ IsDir(f, p)
         THEN Returned(f, p)
         ELSE Raised("OSError", "exists", f, p)
    ELSE IF Exists(f, Parent(p))
    THEN IF IsDir(f, Parent(p))
         THEN Returned(With(f, p, DirNode), p)
         ELSE Raised("OSError", "parent is not a directory", f, p)
    ELSE IF ~parents
    THEN Raised("OSError", "no parent directory", f, p)
    ELSE LET up == Mkdir(f, Parent(p), TRUE, TRUE)
         IN  IF up.res # "ok" THEN Raised(up.res, up.err, f, p)
             ELSE Returned(With(up.fs, p, DirNode), p)

\* safe_mkdir once the validation has ended as validated
ThenMkdir(f, validated, parents, exist_ok) ==
    IF validated.res # "ok" THEN validated
    ELSE Mkdir(f, validated.target, parents, exist_ok)

\* SafeFileOps.safe_mkdir
safe_mkdir(f, path, parents, exist_ok) ==
    ThenMkdir(f, _validate_path_in_project(f, path, FALSE), parents, exist_ok)

----------------------------------------------------------------------------
(* The states after construction. *)

\* where the script may live: /p/scripts or /a/p/scripts
ProjectDirs == {<<s_p>>, <<s_a, s_p>>}

RECURSIVE Ancestors(_)
\* p and the directories above it
Ancestors(p) == IF p = <<>> THEN {<<>>} ELSE {p} \cup Ancestors(Parent(p))

\* a working tree: the metadata directory, a file, a directory with a file,
\* a link into the metadata directory and a link out of the project
LayerTree(proj) ==
    [q \in Ancestors(proj) |-> DirNode]
    @@ (proj \o <<s_git>>) :> DirNode
    @@ (proj \o <<s_git, s_HEAD>>) :> FileNode(Text(s_ref))
    @@ (proj \o <<s_f>>) :> FileNode(Text(s_orig))
    @@ (proj \o <<s_d>>) :> DirNode
    @@ (proj \o <<s_d, s_g>>) :> FileNode(Text(s_orig))
    @@ (proj \o <<s_l>>) :> LinkNode(proj \o <<s_git>>)
    @@ (proj \o <<s_up>>) :> LinkNode(Parent(proj))

NoCall ==
    [op |-> "none", path |-> <<>>, allow_git |-> FALSE, content |-> <<>>,
     parents |-> FALSE, exist_ok |-> FALSE, res |-> "", err |-> "", target |-> <<>>]

\* the record of a call of op on path that ended as out
Called(op, path, out) ==
    [NoCall EXCEPT !.op = op, !.path = path, !.res = out.res, !.err = out.err,
                   !.target = out.target]

NoError == [kind |-> "", why |-> ""]

\* ModBuilder.__init__ and _validate_paths: the project directory is the
\* parent of the script's directory and not the filesystem root, the output
\* directory is one level up
InitDirs ==
    /\ project_dir \in ProjectDirs
    /\ project_dir # Parent(project_dir)
    /\ output_dir = Parent(project_dir)

\* ModBuilder.__init__: nothing is known yet, the queue is empty
InitBuilder ==
    /\ version = None
    /\ previous_version = None
    /\ mod_name = None
    /\ zip_name = None
    /\ backup_name = None
    /\ commands = <<>>
    /\ executed = <<>>
    /\ transcript = <<>>
    /\ renders = 0
    /\ fs_log = {}
    /\ entered = <<>>
    /\ answer = None
    /\ error = NoError
    /\ exit_status = -1

\* the file layer alone: no run is started
InitFileLayer ==
    /\ InitDirs
    /\ fs = LayerTree(project_dir)
    /\ pre_fs = fs
    /\ last = NoCall
    /\ nops = 0
    /\ skip_factorio = FALSE
    /\ skip_clean = FALSE
    /\ factorio_path = <<>>
    /\ tags = {}
    /\ pc = "idle"
    /\ InitBuilder

----------------------------------------------------------------------------
(* The validators as functions of a spelled path. *)

PathNames == {s_a, s_p, s_p2, s_git, s_HEAD, s_l, s_up, s_dotdot}

SpelledPaths == UNION {[1..k -> PathNames] : k \in 0..MaxPathLen}

CallValidateProject ==
    /\ nops = 0
    /\ nops' = 1
    /\ \E p \in SpelledPaths, allow \in BOOLEAN :
        /\ last' = [Called("validate_project", p,
                           _validate_path_in_project(fs, p, allow))
                    EXCEPT !.allow_git = allow]
        /\ pre_fs' = fs
        /\ UNCHANGED <<project_dir, output_dir, fs, runVars>>

CallValidateOutput ==
    /\ nops = 0
    /\ nops' = 1
    /\ \E p \in SpelledPaths :
        /\ last' = Called("validate_output", p, _validate_path_in_output(fs, p))
        /\ pre_fs' = fs
        /\ UNCHANGED <<project_dir, output_dir, fs, runVars>>

NextValidate == CallValidateProject \/ CallValidateOutput

SpecValidate == InitFileLayer /\ [][NextValidate]_vars

----------------------------------------------------------------------------
(* The four operations under arbitrary targets. *)

\* the targets the operations are called with: the roots, the metadata
\* directory spelled directly, through a link and through "..", entries of
\* the project, new entries, and places outside the project
OpTargets ==
    { project_dir,
      GitDir,
      GitDir \o <<s_HEAD>>,
      project_dir \o <<s_l>>,
      project_dir \o <<s_l, s_HEAD>>,
      project_dir \o <<s_d, s_dotdot, s_git, s_HEAD>>,
      project_dir \o <<s_f>>,
      project_dir \o <<s_d>>,
      project_dir \o <<s_d, s_g>>,
      project_dir \o <<s_new>>,
      project_dir \o <<s_new, s_sub>>,
      project_dir \o <<s_up>>,
      project_dir \o <<s_up, s_out_zip>>,
      output_dir,
      output_dir \o <<s_out_zip>>,
      output_dir \o <<s_p2>>,
      output_dir \o <<s_p2, s_x>>,
      project_dir \o <<s_dotdot, s_dotdot, s_elsewhere>>,
      <<>> }

Contents == {s_new}

CallUnlink ==
    /\ nops < MaxOps
    /\ nops' = nops + 1
    /\ \E p \in OpTargets :
        LET out == safe_unlink(fs, p)
        IN  /\ pre_fs' = fs
            /\ fs' = out.fs
            /\ last' = Called("unlink", p, out)
            /\ UNCHANGED <<project_dir, output_dir, runVars>>

CallRmtree ==
    /\ nops < MaxOps
    /\ nops' = nops + 1
    /\ \E p \in OpTargets :
        LET out == safe_rmtree(fs, p)
        IN  /\ pre_fs' = fs
            /\ fs' = out.fs
            /\ last' = Called("rmtree", p, out)
            /\ UNCHANGED <<project_dir, output_dir, runVars>>

CallWrite ==
    /\ nops < MaxOps
    /\ nops' = nops + 1
    /\ \E p \in OpTargets, c \in Contents :
        LET out == safe_write(fs, p, c)
        IN  /\ pre_fs' = fs
            /\ fs' = out.fs
            /\ last' = [Called("write", p, out) EXCEPT !.content = c]
            /\ UNCHANGED <<project_dir, output_dir, runVars>>

CallMkdir ==
    /\ nops < MaxOps
    /\ nops' = nops + 1
    /\ \E p \in OpTargets, parents \in BOOLEAN, exist_ok \in BOOLEAN :
        LET out == safe_mkdir(fs, p, parents, exist_ok)
        IN  /\ pre_fs' = fs
            /\ fs' = out.fs
            /\ last' = [Called("mkdir", p, out)
                        EXCEPT !.parents = parents, !.exist_ok = exist_ok]
            /\ UNCHANGED <<project_dir, output_dir, runVars>>

NextFileOps == CallUnlink \/ CallRmtree \/ CallWrite \/ CallMkdir

SpecFileOps == InitFileLayer /\ [][NextFileOps]_vars

----------------------------------------------------------------------------
(* ModBuilder: version metadata. *)

\* the position after a match of \d+\.\d+\.\d+ at position i, or 0
MatchTriple(s, i) ==
    LET a == SkipWhile(s, i, Digits)
    IN  IF a = i \/ a > Len(s) \/ s[a] # "." THEN 0
        ELSE LET b == SkipWhile(s, a + 1, Digits)
             IN  IF b = a + 1 \/ b > Len(s) \/ s[b] # "." THEN 0
                 ELSE LET c == SkipWhile(s, b + 1, Digits)
                      IN  IF c = b + 1 THEN 0 ELSE c

\* ModBuilder.validate_version_format: re.match(r'^v\d+\.\d+\.\d+$', v);
\* $ matches at the end and before a line break that ends the string
validate_version_format(v) ==
    /\ Len(v) >= 1
    /\ v[1] = "v"
    /\ LET e == MatchTriple(v, 2)
       IN  e # 0 /\ (e = Len(v) + 1 \/ (e = Len(v) /\ v[e] = "\n"))

\* what open() of a path for reading does: "ok", or the exception
OpenRead(f, p) ==
    IF ~PathExists(f, p) THEN "FileNotFoundError"
    ELSE IF ~IsFile(f, p) THEN "IsADirectoryError"
    ELSE "ok"

\* the data of the file at p
Read(f, p) == f[Resolve(f, p)].data

Failed(kind, why) == [res |-> kind, why |-> why]

\* ModBuilder.extract_version_from_info_json: the name is stored before the
\* version is returned, with 'v' put in front of a version that lacks it
extract_version_from_info_json(f) ==
    LET info_path == project_dir \o <<s_info_json>>
    IN  IF ~PathExists(f, info_path)
        THEN Failed("BuildError", "info.json not found") @@ [mod_name |-> None, version |-> None]
        ELSE IF OpenRead(f, info_path) # "ok"
        THEN Failed("Exception", OpenRead(f, info_path)) @@ [mod_name |-> None, version |-> None]
        ELSE LET info == Read(f, info_path).json
             IN  IF ~info.has_version
                 THEN Failed("BuildError", "no version field") @@ [mod_name |-> None, version |-> None]
                 ELSE IF ~info.has_name
                 THEN Failed("BuildError", "no name field") @@ [mod_name |-> None, version |-> None]
                 ELSE [res |-> "ok", why |-> "", mod_name |-> info.name,
                       version |-> IF StartsWith(info.version, s_v) THEN info.version
                                   ELSE s_v \o info.version]

RECURSIVE FindVersions(_, _)
\* re.findall(r'Version:\s*(\d+\.\d+\.\d+)', content), from position i on
FindVersions(s, i) ==
    IF i > Len(s) THEN <<>>
    ELSE IF HasAt(s, i, s_Version_colon)
    THEN LET w == SkipWhile(s, i + Len(s_Version_colon), Whitespace)
             e == MatchTriple(s, w)
         IN  IF e # 0 THEN <<SubSeq(s, w, e - 1)>> \o FindVersions(s, e)
             ELSE FindVersions(s, i + 1)
    ELSE FindVersions(s, i + 1)

\* ModBuilder.extract_versions_from_changelog
extract_versions_from_changelog(f) ==
    LET changelog_path == project_dir \o <<s_changelog_txt>>
    IN  IF ~PathExists(f, changelog_path)
        THEN Failed("BuildError", "changelog.txt not found") @@ [current |-> None, previous |-> None]
        ELSE IF OpenRead(f, changelog_path) # "ok"
        THEN Failed("Exception", OpenRead(f, changelog_path)) @@ [current |-> None, previous |-> None]
        ELSE LET matches == FindVersions(Read(f, changelog_path).text, 1)
             IN  IF matches = <<>>
                 THEN Failed("BuildError", "no version in changelog") @@ [current |-> None, previous |-> None]
                 ELSE [res |-> "ok", why |-> "", current |-> s_v \o matches[1],
                       previous |-> IF Len(matches) > 1 THEN s_v \o matches[2] ELSE None]

\* ModBuilder.validate_versions: what it stores in mod_name, previous_version
\* and version, and how it ends
validate_versions(f) ==
    LET i == extract_version_from_info_json(f)
        c == extract_versions_from_changelog(f)
        stored == [mod_name |-> i.mod_name, previous_version |-> None, version |-> None]
    IN  IF i.res # "ok" THEN Failed(i.res, i.why) @@ stored
        ELSE IF c.res # "ok" THEN Failed(c.res, c.why) @@ stored
        ELSE LET read == [stored EXCEPT !.previous_version = c.previous]
             IN  IF ~validate_version_format(i.version)
                 THEN Failed("BuildError", "info.json version format") @@ read
                 ELSE IF ~validate_version_format(c.current)
                 THEN Failed("BuildError", "changelog version format") @@ read
                 ELSE IF i.version # c.current
                 THEN Failed("BuildError", "version mismatch") @@ read
                 ELSE IF c.previous # None /\ ~validate_version_format(c.previous)
                 THEN Failed("BuildError", "previous version format") @@ read
                 ELSE [res |-> "ok", why |-> ""] @@ [read EXCEPT !.version = i.version]

----------------------------------------------------------------------------
(* ModBuilder: package and backup. *)

\* the entries of directory dir
Children(f, dir) == {p \in DOMAIN f : Len(p) = Len(dir) + 1 /\ Parent(p) = dir}

\* a mutation of the filesystem: the code that made it and the node it hit
Mutation(route, path) == [route |-> route, path |-> path]

\* the directory names os.walk is told not to descend into
PrunedNames == {s_git, s_scripts, s_tmp}

\* os.walk(project_dir) reaches p as an entry of a directory it visits: every
\* directory between the project directory and p is a real directory (links
\* are not followed) whose name is not pruned
Visited(f, p) ==
    /\ Len(p) > Len(project_dir)
    /\ IsRelativeTo(p, project_dir)
    /\ p \in DOMAIN f
    /\ \A k \in (Len(project_dir) + 1)..(Len(p) - 1) :
          /\ f[SubSeq(p, 1, k)].kind = "dir"
          /\ p[k] \notin PrunedNames

\* the entries os.walk lists as files: everything that is not a directory or
\* a link to one
WalkFiles(f) == {p \in DOMAIN f : Visited(f, p) /\ ~IsDir(f, p)}

\* file names the package leaves out
SkippedName(n) == EndsWith(n, s_dot_zip) \/ EndsWith(n, s_dot_7z) \/ EndsWith(n, s_tilde)

\* the files build_zip_package hands to zout.write
PackagedFiles(f) == {p \in WalkFiles(f) : ~SkippedName(Name(p))}

\* Path(version_name) / full_path.relative_to(project_dir)
ArchivePath(version_name, p) ==
    <<version_name>> \o SubSeq(p, Len(project_dir) + 1, Len(p))

Done(f, log) == [res |-> "ok", why |-> "", fs |-> f, log |-> log]
Broke(kind, why, f, log) == [res |-> kind, why |-> why, fs |-> f, log |-> log]

\* self.version without its leading 'v'
VersionNumber(ver) == IF StartsWith(ver, s_v) THEN Tail(ver) ELSE ver

\* build_zip_package: the name it stores in zip_name
ZipName(name, ver) == name \o s_underscore \o VersionNumber(ver) \o s_dot_zip

\* ModBuilder.build_zip_package: the archive is opened by zipfile.ZipFile at
\* the validated path; written holds the files added when a file that cannot
\* be read (a dangling link) stops the walk
build_zip_package(f, name, ver, written) ==
    LET version_name == name \o s_underscore \o VersionNumber(ver)
        zip_path == PathJoin(output_dir, ZipName(name, ver))
        v == _validate_path_in_output(f, zip_path)
    IN  IF v.res # "ok" THEN Broke(v.res, v.err, f, {})
        ELSE LET opened == OpenWrite(f, v.target, Archive({}))
                 files == PackagedFiles(f)
                 unreadable == {p \in files : ~PathExists(f, p)}
                 added == IF unreadable = {} THEN files ELSE written
                 zipped == OpenWrite(f, v.target,
                              Archive({ArchivePath(version_name, p) : p \in added}))
             IN  IF opened.res # "ok" THEN Broke("Exception", opened.err, f, {})
                 ELSE IF unreadable # {}
                 THEN Broke("Exception", "FileNotFoundError", zipped.fs,
                            {Mutation("ZipFile", Resolve(f, v.target))})
                 ELSE Done(zipped.fs, {Mutation("ZipFile", Resolve(f, v.target))})

\* what build_zip_package may have added before an unreadable file stops it
PartlyWritten(f) ==
    IF \E p \in PackagedFiles(f) : ~PathExists(f, p)
    THEN SUBSET {p \in PackagedFiles(f) : PathExists(f, p)}
    ELSE {{}}

\* create_backup: the name it stores in backup_name
BackupName(name, ver) == name \o s_underscore \o ver \o s_backup_7z

\* 7z a <archive> . -xr!.git -xr!*.zip -xr!*.7z, run in the project
\* directory: every entry beneath it but those named .git, *.zip or *.7z at
\* any depth, and what is beneath them
BackedUp(f) ==
    {p \in DOMAIN f :
        /\ Len(p) > Len(project_dir)
        /\ IsRelativeTo(p, project_dir)
        /\ f[p].kind # "dir"
        /\ \A k \in (Len(project_dir) + 1)..Len(p) :
              /\ p[k] # s_git
              /\ ~EndsWith(p[k], s_dot_zip)
              /\ ~EndsWith(p[k], s_dot_7z)}

\* the command line of the archiver
ArchiverCmd(seven_z_cmd, backup_path) ==
    <<seven_z_cmd, <<"a">>, PathStr(backup_path), s_dot, s_xr_git, s_xr_zip, s_xr_7z>>

\* one subprocess.run: the command line, how it ended and what it printed
Ran(argv, outcome) == [argv |-> argv, outcome |-> outcome, stdout |-> <<>>]

\* how a probe may end: exit status 0, another exit status, or
\* FileNotFoundError because the program is not installed
ProbeOutcomes == {"0", "1", "FileNotFoundError"}
\* how a program that is installed may end
ExitOutcomes == {"0", "1"}

\* the archiver adds to the archive at path, creating it when missing
ArchiverWrites(f, path, paths) ==
    LET old == IF IsFile(f, path) THEN f[Resolve(f, path)].data.entries ELSE {}
    IN  IF IsDir(f, path) \/ ~IsDir(f, Parent(Resolve(f, path))) THEN f
        ELSE With(f, Resolve(f, path), FileNode(Archive(old \cup paths)))

\* a backup that takes the archive for made however the archiver ended
create_backup_AnyExit(f, name, ver, probe_7z, probe_7za, rc, wrote) ==
    LET backup_path == PathJoin(output_dir, BackupName(name, ver))
        v == _validate_path_in_output(f, backup_path)
        probes == IF probe_7z = "0" THEN <<Ran(<<s_7z, s_help>>, probe_7z)>>
                  ELSE <<Ran(<<s_7z, s_help>>, probe_7z), Ran(<<s_7za, s_help>>, probe_7za)>>
        seven_z_cmd == IF probe_7z = "0" THEN s_7z ELSE s_7za
        cmd == ArchiverCmd(seven_z_cmd, v.target)
        archived == ArchiverWrites(f, v.target,
                        {SubSeq(p, Len(project_dir) + 1, Len(p)) : p \in BackedUp(f)})
        log == IF archived = f THEN {} ELSE {Mutation("7z", v.target)}
    IN  IF v.res # "ok" THEN Broke(v.res, v.err, f, {}) @@ [ran |-> <<>>]
        ELSE IF probe_7z # "0" /\ probe_7za # "0"
        THEN Broke("BuildError", "no archiver", f, {}) @@ [ran |-> probes]
        ELSE Done(archived, log) @@ [ran |-> probes \o <<Ran(cmd, rc)>>]

\* ModBuilder.create_backup, given how the probes of 7z and 7za and the
\* archiver end, and whether an archiver that ends in an error has written
\* the archive
create_backup(f, name, ver, probe_7z, probe_7za, rc, wrote) ==
    LET backup_path == PathJoin(output_dir, BackupName(name, ver))
        v == _validate_path_in_output(f, backup_path)
        probes == IF probe_7z = "0" THEN <<Ran(<<s_7z, s_help>>, probe_7z)>>
                  ELSE <<Ran(<<s_7z, s_help>>, probe_7z), Ran(<<s_7za, s_help>>, probe_7za)>>
        seven_z_cmd == IF probe_7z = "0" THEN s_7z ELSE s_7za
        cmd == ArchiverCmd(seven_z_cmd, v.target)
        archived == ArchiverWrites(f, v.target,
                        {SubSeq(p, Len(project_dir) + 1, Len(p)) : p \in BackedUp(f)})
        log == IF archived = f THEN {} ELSE {Mutation("7z", v.target)}
    IN  IF v.res # "ok" THEN Broke(v.res, v.err, f, {}) @@ [ran |-> <<>>]
        ELSE IF probe_7z # "0" /\ probe_7za # "0"
        THEN Broke("BuildError", "no archiver", f, {}) @@ [ran |-> probes]
        ELSE IF rc # "0"
        THEN Broke("BuildError", "backup failed", IF wrote THEN archived ELSE f,
                   IF wrote THEN log ELSE {})
             @@ [ran |-> probes \o <<Ran(cmd, rc)>>]
        ELSE Done(archived, log) @@ [ran |-> probes \o <<Ran(cmd, rc)>>]

----------------------------------------------------------------------------
(* ModBuilder: cleanup, test run, confirmation. *)

RECURSIVE Orders(_)
\* the orders in which the entries S may be listed
Orders(S) ==
    IF S = {} THEN {<<>>}
    ELSE UNION {{<<x>> \o rest : rest \in Orders(S \ {x})} : x \in S}

\* project_dir.iterdir(): the entries in an order the system chooses; where
\* .git comes in it makes no difference to a loop that passes it over, so
\* it is listed first
Listings(f) ==
    {SelectSeq(<<GitDir>>, LAMBDA p : p \in DOMAIN f) \o rest :
        rest \in Orders(Children(f, project_dir) \ {GitDir})}

RECURSIVE CleanLoop(_, _, _)
RECURSIVE CleanNext(_, _, _, _, _)
\* the loop goes on after the wrapper called for an entry ended as out
CleanNext(f, items, log, wrapper, out) ==
    IF out.res # "ok" THEN Broke(out.res, out.err, f, log)
    ELSE CleanLoop(out.fs, items, log \cup {Mutation(wrapper, out.target)})

\* the loop of clean_project_directory over the listed entries
CleanLoop(f, items, log) ==
    IF items = <<>> THEN Done(f, log)
    ELSE IF Name(Head(items)) = s_git THEN CleanLoop(f, Tail(items), log)
    ELSE IF IsFile(f, Head(items))
    THEN CleanNext(f, Tail(items), log, "safe_unlink", safe_unlink(f, Head(items)))
    ELSE IF IsDir(f, Head(items))
    THEN CleanNext(f, Tail(items), log, "safe_rmtree", safe_rmtree(f, Head(items)))
    ELSE CleanLoop(f, Tail(items), log)

\* ModBuilder.clean_project_directory, with iterdir listing the entries in order
clean_project_directory(f, order) == CleanLoop(f, order, {})

\* how the test executable may end: exit status 0, another exit status, or
\* an OSError because the path cannot be executed
TestOutcomes == {"0", "1", "PermissionError"}

\* ModBuilder.run_factorio
run_factorio(f, rc) ==
    IF ~PathExists(f, factorio_path)
    THEN Broke("BuildError", "factorio not found", f, {}) @@ [ran |-> <<>>]
    ELSE LET ran == <<Ran(<<PathStr(factorio_path)>>, rc)>>
         IN  IF rc = "0" THEN Done(f, {}) @@ [ran |-> ran]
             ELSE IF rc = "1"
             THEN Broke("BuildError", "factorio exited with error", f, {}) @@ [ran |-> ran]
             ELSE Broke("Exception", rc, f, {}) @@ [ran |-> ran]

\* confirm_proceed that takes every answer but an empty one for consent
confirm_proceed_AnyAnswer(response) == Strip(response) # <<>>

\* ModBuilder.confirm_proceed: input(...).strip().lower() in ['y', 'yes']
confirm_proceed(response) == Lower(Strip(response)) \in {s_y, s_yes}

----------------------------------------------------------------------------
(* RemoteCommandWrapper. *)

\* the dictionary git_command and gh_command append
Command(type, args, description) ==
    [type |-> type, args |-> args, description |-> description]

\* a wrapper that puts a git command at the front of the list
git_command_AtFront(queue, args, description) ==
    <<Command(s_git_cmd, args, description)>> \o queue

\* RemoteCommandWrapper.git_command
git_command(queue, args, description) ==
    Append(queue, Command(s_git_cmd, args, description))

\* RemoteCommandWrapper.gh_command
gh_command(queue, args, description) ==
    Append(queue, Command(s_gh, args, description))

RECURSIVE Join(_, _)
\* sep.join(parts)
Join(sep, parts) ==
    IF parts = <<>> THEN <<>>
    ELSE IF Len(parts) = 1 THEN Head(parts)
    ELSE Head(parts) \o sep \o Join(sep, Tail(parts))

RECURSIVE CommandLines(_)
\* the loop of print_all_commands: the description when there is one, the
\* command line, an empty line
CommandLines(queue) ==
    IF queue = <<>> THEN <<>>
    ELSE LET cmd == Head(queue)
             cmd_str == Join(<<" ">>, <<cmd.type>> \o cmd.args)
         IN  (IF cmd.description # <<>> THEN <<s_hash \o cmd.description>> ELSE <<>>)
             \o <<cmd_str, <<>>>> \o CommandLines(Tail(queue))

\* RemoteCommandWrapper.print_all_commands: the lines it prints
print_all_commands(queue) ==
    IF queue = <<>> THEN <<>>
    ELSE <<<<>>, s_banner, s_REMOTE, s_banner, <<>>, s_cd \o PathStr(project_dir), <<>>>>
         \o CommandLines(queue) \o <<s_banner>>

----------------------------------------------------------------------------
(* ModBuilder: tags and release. *)

\* what git tag -l <name> prints: the tag when the repository has it
TagListing(name) == IF name \in tags THEN name \o <<"\n">> ELSE <<>>

\* a query that creates the tag it asks for
TagQuery_Creating(name) ==
    [argv |-> <<s_git_cmd, s_tag, s_dash_a, name, s_dash_m, s_Release \o name>>,
     outcome |-> "0", stdout |-> TagListing(name)]

\* subprocess.run(['git', 'tag', '-l', name], ...)
TagQuery(name) ==
    [argv |-> <<s_git_cmd, s_tag, s_dash_l, name>>, outcome |-> "0",
     stdout |-> TagListing(name)]

\* a verification that lists the tag and is content with any answer
verify_previous_tag_AnyAnswer(prev) ==
    IF prev = None \/ prev = <<>> THEN [res |-> "ok", why |-> "", ran |-> <<>>]
    ELSE [res |-> "ok", why |-> "", ran |-> <<TagQuery(prev)>>]

\* ModBuilder.verify_previous_tag
verify_previous_tag(prev) ==
    IF prev = None \/ prev = <<>> THEN [res |-> "ok", why |-> "", ran |-> <<>>]
    ELSE IF Strip(TagQuery(prev).stdout) = <<>>
    THEN [res |-> "BuildError", why |-> "previous tag not found", ran |-> <<TagQuery(prev)>>]
    ELSE [res |-> "ok", why |-> "", ran |-> <<TagQuery(prev)>>]

\* a preparation that queues the two commands and then looks for the tag
create_git_tag_QueueFirst(queue, ver) ==
    [res |-> IF Strip(TagQuery(ver).stdout) # <<>> THEN "BuildError" ELSE "ok",
     why |-> IF Strip(TagQuery(ver).stdout) # <<>> THEN "tag exists" ELSE "",
     ran |-> <<TagQuery(ver)>>,
     commands |->
         git_command(
             git_command(queue, <<s_tag, s_dash_a, ver, s_dash_m, s_Release \o ver>>,
                         s_Create_tag \o ver),
             <<s_push, s_origin, ver>>, s_Push_tag)]

\* ModBuilder.create_git_tag: the query, and the queue it leaves
create_git_tag(queue, ver) ==
    IF Strip(TagQuery(ver).stdout) # <<>>
    THEN [res |-> "BuildError", why |-> "tag exists", ran |-> <<TagQuery(ver)>>,
          commands |-> queue]
    ELSE [res |-> "ok", why |-> "", ran |-> <<TagQuery(ver)>>,
          commands |->
              git_command(
                  git_command(queue, <<s_tag, s_dash_a, ver, s_dash_m, s_Release \o ver>>,
                              s_Create_tag \o ver),
                  <<s_push, s_origin, ver>>, s_Push_tag)]

RECURSIVE TakeEntry(_)
\* the lines before the first line that starts, stripped, with ----
TakeEntry(lines) ==
    IF lines = <<>> \/ StartsWith(Strip(Head(lines)), s_dashes) THEN <<>>
    ELSE <<Head(lines)>> \o TakeEntry(Tail(lines))

\* line[2:] if line.startswith('  ') else line
Dedent(line) == IF StartsWith(line, s_two_spaces) THEN SubSeq(line, 3, Len(line)) ELSE line

\* extract_changelog_for_release: the text it makes of the change log
ChangelogText(content) ==
    LET lines == SplitLines(content, 1)
        entry == TakeEntry(SubSeq(lines, 4, Len(lines)))
        changes == [i \in 1..Len(entry) |-> Dedent(entry[i])]
        result == [i \in 1..Len(changes) |->
                      (IF i > 1 /\ changes[i] # <<>> /\ changes[i][1] \notin Whitespace
                       THEN <<"\n">> ELSE <<>>) \o changes[i]]
    IN  Strip(Concat(result))

\* self.tmp_dir and the scratch file in it
TmpDir == project_dir \o <<s_tmp>>
ChangesPath == TmpDir \o <<s_changes_txt>>

\* extract_changelog_for_release once safe_write has ended as saved: the
\* text that was written is returned
ThenReturnText(f, log, saved, changelog_text) ==
    IF saved.res # "ok" THEN Broke(saved.res, saved.err, f, log)
    ELSE Done(saved.fs, log \cup {Mutation("safe_write", Resolve(f, saved.target))})
         @@ [text |-> changelog_text]

\* an extraction that saves the text over the change log
ThenExtract_OverChangelog(f, made) ==
    IF made.res # "ok" THEN Broke(made.res, made.err, f, {})
    ELSE IF OpenRead(made.fs, project_dir \o <<s_changelog_txt>>) # "ok"
    THEN Broke("Exception", OpenRead(made.fs, project_dir \o <<s_changelog_txt>>), made.fs, {})
    ELSE ThenReturnText(made.fs, {},
             safe_write(made.fs, project_dir \o <<s_changelog_txt>>,
                        ChangelogText(Read(made.fs, project_dir \o <<s_changelog_txt>>).text)),
             ChangelogText(Read(made.fs, project_dir \o <<s_changelog_txt>>).text))

\* extract_changelog_for_release once safe_mkdir has ended as made
ThenExtract(f, made) ==
    LET made_log == IF made.fs = f THEN {} ELSE {Mutation("safe_mkdir", made.target)}
        changelog_path == project_dir \o <<s_changelog_txt>>
    IN  IF made.res # "ok" THEN Broke(made.res, made.err, f, {})
        ELSE IF OpenRead(made.fs, changelog_path) # "ok"
        THEN Broke("Exception", OpenRead(made.fs, changelog_path), made.fs, made_log)
        ELSE ThenReturnText(made.fs, made_log,
                 safe_write(made.fs, ChangesPath,
                            ChangelogText(Read(made.fs, changelog_path).text)),
                 ChangelogText(Read(made.fs, changelog_path).text))

\* an extraction that makes tmp and leaves the scratch file unwritten
extract_changelog_for_release_NoScratch(f) ==
    ThenReturnText(f, {}, safe_mkdir(f, TmpDir, FALSE, TRUE), <<>>)

\* ModBuilder.extract_changelog_for_release
extract_changelog_for_release(f) == ThenExtract(f, safe_mkdir(f, TmpDir, FALSE, TRUE))

\* create_github_release once extract_changelog_for_release has ended as x
ThenQueueRelease(x, queue, ver, zip_path) ==
    IF x.res # "ok" THEN x @@ [commands |-> queue]
    ELSE IF ~PathExists(x.fs, zip_path)
    THEN Broke("BuildError", "package not found", x.fs, x.log) @@ [commands |-> queue]
    ELSE x @@ [commands |->
                   gh_command(queue,
                       <<s_release, s_create, ver, PathStr(zip_path),
                         s_dash_t, s_Version_sp \o ver, s_dash_F, PathStr(ChangesPath)>>,
                       s_Create_release \o ver)]

\* ModBuilder.create_github_release, given how the probe of gh ends
create_github_release(f, queue, ver, zname, probe_gh) ==
    [ran |-> <<Ran(<<s_gh, s_version_flag>>, probe_gh)>>]
    @@ (IF probe_gh # "0"
        THEN Broke("BuildError", "gh not found", f, {}) @@ [commands |-> queue]
        ELSE ThenQueueRelease(extract_changelog_for_release(f), queue, ver,
                              PathJoin(output_dir, zname)))

----------------------------------------------------------------------------
(* The states a run starts in. *)

\* info.json: the object it holds
Info(name, ver) == [has_name |-> TRUE, name |-> name, has_version |-> TRUE, version |-> ver]

\* the info.json files of the model; the first is no file at all
NoInfo == [present |-> FALSE, json |-> NoJson]
InfoFiles ==
    {NoInfo}
    \cup {[present |-> TRUE, json |-> j] :
            j \in {Info(s_mod, s_200), Info(s_mod, s_v200), Info(s_mod, s_201),
                   Info(s_mod, s_12), Info(s_x_mod, s_200),
                   [Info(s_mod, <<>>) EXCEPT !.has_version = FALSE]}}

\* an entry of changelog.txt for a version
Entry(ver) ==
    <<"-", "-", "-", "-", "\n">> \o s_Version_colon \o <<" ">> \o ver \o <<"\n", "D", "a", "t", "e", ":", " ", "1", "\n", " ", " ", "C", "h", "a", "n", "g", "e", "s", ":", "\n", " ", " ", " ", " ", "-", " ", "a", "\n">>

\* the changelog.txt files of the model: one entry, two entries, a top entry
\* with a two-part version, a top entry with a letter after the version, no
\* entry, and no file at all
s_200a == <<"2", ".", "0", ".", "0", "a">>
NoChangelog == [present |-> FALSE, text |-> <<>>]
Changelogs ==
    {NoChangelog}
    \cup {[present |-> TRUE, text |-> t] :
            t \in {Entry(s_200), Entry(s_200) \o Entry(s_100), Entry(s_12) \o Entry(s_200),
                   Entry(s_200a), <<"t", "o", "d", "o", "\n">>}}

\* what else the project directory holds: nothing, an old package, a link to
\* the metadata directory, a link to the project directory, a dangling link,
\* a link to info.json, a library with a nested scripts directory, and, in
\* the output directory, a link of the backup's name that leads elsewhere
s_lib == <<"l", "i", "b">>
s_gone == <<"g", "o", "n", "e">>
Extras ==
    {"none", "old package", "link to .git", "link to project", "dangling link",
     "link to file", "library", "backup is link"}

ExtraNodes(proj, extra) ==
    CASE extra = "old package" -> (proj \o <<s_old_zip>>) :> FileNode(Archive({}))
      [] extra = "link to .git" -> (proj \o <<s_l>>) :> LinkNode(proj \o <<s_git>>)
      [] extra = "link to project" -> (proj \o <<s_l>>) :> LinkNode(proj)
      [] extra = "dangling link" -> (proj \o <<s_l>>) :> LinkNode(proj \o <<s_gone>>)
      [] extra = "link to file" -> (proj \o <<s_l>>) :> LinkNode(proj \o <<s_info_json>>)
      [] extra = "backup is link" ->
            (Parent(proj) \o <<BackupName(s_mod, s_v200)>>) :> LinkNode(<<s_elsewhere>>)
      [] extra = "library" ->
            (proj \o <<s_lib>>) :> DirNode
            @@ (proj \o <<s_lib, s_scripts>>) :> DirNode
            @@ (proj \o <<s_lib, s_scripts, s_x>>) :> FileNode(Text(s_orig))
      [] OTHER -> <<>>

\* a working tree with the script in scripts/, and the test executable
ProjectTree(proj, info, changelog, extra, with_test) ==
    [q \in Ancestors(proj) |-> DirNode]
    @@ (proj \o <<s_git>>) :> DirNode
    @@ (proj \o <<s_git, s_HEAD>>) :> FileNode(Text(s_ref))
    @@ (proj \o <<s_scripts>>) :> DirNode
    @@ (proj \o <<s_scripts, s_build_py>>) :> FileNode(Text(s_orig))
    @@ (IF info.present THEN (proj \o <<s_info_json>>) :> FileNode(Json(info.json))
        ELSE <<>>)
    @@ (IF changelog.present
        THEN (proj \o <<s_changelog_txt>>) :> FileNode(Text(changelog.text))
        ELSE <<>>)
    @@ ExtraNodes(proj, extra)
    @@ (IF with_test THEN <<s_factorio>> :> FileNode(Text(s_orig)) ELSE <<>>)

\* the working trees of the model: every info.json with every changelog.txt
\* in a project that holds nothing else, and every extra content in a
\* project whose info.json and changelog.txt agree
Trees(proj) ==
    {ProjectTree(proj, info, changelog, "none", with_test) :
        info \in InfoFiles, changelog \in Changelogs, with_test \in BOOLEAN}
    \cup {ProjectTree(proj, [present |-> TRUE, json |-> Info(s_mod, s_200)],
                      [present |-> TRUE, text |-> t], extra, with_test) :
            t \in {Entry(s_200), Entry(s_200) \o Entry(s_100)},
            extra \in Extras, with_test \in BOOLEAN}

\* main: the arguments are parsed and the builder is constructed
Init ==
    /\ project_dir = <<s_a, s_p>>
    /\ InitDirs
    /\ fs \in Trees(project_dir)
    /\ pre_fs = fs
    /\ last = NoCall
    /\ nops = 0
    /\ skip_factorio \in BOOLEAN
    /\ skip_clean \in BOOLEAN
    /\ factorio_path = <<s_factorio>>
    /\ tags \in SUBSET {s_v200, s_v100}
    /\ pc = "ValidateVersions"
    /\ InitBuilder

----------------------------------------------------------------------------
(* ModBuilder.run. *)

Stages ==
    <<"ValidateVersions", "Package", "Backup", "Clean", "RunTest", "Confirm",
      "VerifyPreviousTag", "PrepareTag", "PrepareRelease", "Render">>
StageSet == {Stages[i] : i \in 1..Len(Stages)}
Terminal == {"Completed", "AbortedOnError", "AbortedByUser"}

\* a stage is entered
Enter(stage) == entered' = Append(entered, stage)

\* the mutations a stage made
StageLog(stage, log) ==
    {[stage |-> stage, route |-> m.route, path |-> m.path] : m \in log}

\* the handlers of run with the exit status of a normal return
Raise_ExitZero(kind, why) ==
    /\ pc' = "AbortedOnError"
    /\ error' = [kind |-> IF kind \in {"BuildError", "KeyboardInterrupt"} THEN kind
                          ELSE "Exception",
                 why |-> why]
    /\ exit_status' = 0

\* a handler that reports the error and lets run go on with the confirmation
Raise_Swallowed(kind, why) ==
    /\ pc' = "Confirm"
    /\ error' = [kind |-> IF kind \in {"BuildError", "KeyboardInterrupt"} THEN kind
                          ELSE "Exception",
                 why |-> why]
    /\ UNCHANGED exit_status

\* a handler that reports the error and lets run go on to print the queue
Raise_ThenRender(kind, why) ==
    /\ pc' = "Render"
    /\ error' = [kind |-> IF kind \in {"BuildError", "KeyboardInterrupt"} THEN kind
                          ELSE "Exception",
                 why |-> why]
    /\ UNCHANGED exit_status

\* the handlers of run: BuildError, KeyboardInterrupt and every other
\* Exception end in sys.exit(1)
Raise(kind, why) ==
    /\ pc' = "AbortedOnError"
    /\ error' = [kind |-> IF kind \in {"BuildError", "KeyboardInterrupt"} THEN kind
                          ELSE "Exception",
                 why |-> why]
    /\ exit_status' = 1

\* the stage returned: run goes on with the next one
Goto(stage) == pc' = stage /\ UNCHANGED <<error, exit_status>>

\* run returns and main with it: the process ends with status 0
Return(how) == pc' = how /\ exit_status' = 0 /\ UNCHANGED error

layerFrame == <<project_dir, output_dir, pre_fs, last, nops>>
inputs == <<skip_factorio, skip_clean, factorio_path, tags>>
\* what no stage but the first, the confirmation and the last changes
kept == <<version, previous_version, mod_name, transcript, renders, answer>>

\* the stage has ended as out: what it did to the filesystem, what it
\* executed and queued, and whether run goes on or an exception leaves it
StageEnds(stage, next, out) ==
    /\ fs' = out.fs
    /\ fs_log' = fs_log \cup StageLog(stage, out.log)
    /\ executed' = executed \o out.ran
    /\ commands' = out.commands
    /\ IF out.res = "ok" THEN Goto(next) ELSE Raise(out.res, out.why)

\* validate_versions has ended as out
VersionsStored(out) ==
    /\ mod_name' = out.mod_name
    /\ previous_version' = out.previous_version
    /\ version' = out.version
    /\ IF out.res = "ok" THEN Goto("Package") ELSE Raise(out.res, out.why)

\* Step 1
ValidateVersions ==
    /\ pc = "ValidateVersions"
    /\ Enter("ValidateVersions")
    /\ VersionsStored(validate_versions(fs))
    /\ UNCHANGED <<layerFrame, inputs, fs, zip_name, backup_name, commands, executed,
                   transcript, renders, fs_log, answer>>

\* Step 2
Package ==
    /\ pc = "Package"
    /\ Enter("Package")
    /\ zip_name' = ZipName(mod_name, version)
    /\ \E written \in PartlyWritten(fs) :
          StageEnds("Package", "Backup",
                    build_zip_package(fs, mod_name, version, written)
                    @@ [ran |-> <<>>, commands |-> commands])
    /\ UNCHANGED <<layerFrame, inputs, kept, backup_name>>

\* Step 3
Backup ==
    /\ pc = "Backup"
    /\ Enter("Backup")
    /\ backup_name' = BackupName(mod_name, version)
    /\ \E probe_7z \in ProbeOutcomes, probe_7za \in ProbeOutcomes, rc \in ExitOutcomes,
          wrote \in BOOLEAN :
          StageEnds("Backup", "Clean",
                    create_backup(fs, mod_name, version, probe_7z, probe_7za, rc, wrote)
                    @@ [commands |-> commands])
    /\ UNCHANGED <<layerFrame, inputs, kept, zip_name>>

\* Step 4
Clean ==
    /\ pc = "Clean"
    /\ ~skip_clean
    /\ Enter("Clean")
    /\ \E order \in Listings(fs) :
          StageEnds("Clean", "RunTest",
                    clean_project_directory(fs, order)
                    @@ [ran |-> <<>>, commands |-> commands])
    /\ UNCHANGED <<layerFrame, inputs, kept, zip_name, backup_name>>

\* Step 4, skipped
SkipClean ==
    /\ pc = "Clean"
    /\ skip_clean
    /\ Goto("RunTest")
    /\ UNCHANGED <<layerFrame, inputs, kept, fs, zip_name, backup_name, commands, executed,
                   fs_log, entered>>

\* Step 5
RunTest ==
    /\ pc = "RunTest"
    /\ ~skip_factorio
    /\ Enter("RunTest")
    /\ \E rc \in TestOutcomes :
          StageEnds("RunTest", "Confirm", run_factorio(fs, rc) @@ [commands |-> commands])
    /\ UNCHANGED <<layerFrame, inputs, kept, zip_name, backup_name>>

\* Step 5, skipped
SkipTest ==
    /\ pc = "RunTest"
    /\ skip_factorio
    /\ Goto("Confirm")
    /\ UNCHANGED <<layerFrame, inputs, kept, fs, zip_name, backup_name, commands, executed,
                   fs_log, entered>>

\* what the user may type at the prompt
Answers == {s_y, <<" ", "Y", "e", "s", " ">>, <<"n">>, <<>>, <<"y", "y">>}

\* Step 6
Confirm ==
    /\ pc = "Confirm"
    /\ Enter("Confirm")
    /\ \E response \in Answers :
          /\ answer' = response
          /\ IF confirm_proceed(response) THEN Goto("VerifyPreviousTag")
             ELSE Return("AbortedByUser")
    /\ UNCHANGED <<layerFrame, inputs, fs, version, previous_version, mod_name, zip_name,
                   backup_name, commands, executed, transcript, renders, fs_log>>

\* Step 6, with the input closed: input() raises EOFError
PromptClosed ==
    /\ pc = "Confirm"
    /\ Enter("Confirm")
    /\ Raise("EOFError", "EOFError")
    /\ UNCHANGED <<layerFrame, inputs, fs, version, previous_version, mod_name, zip_name,
                   backup_name, commands, executed, transcript, renders, fs_log, answer>>

\* Step 7
VerifyPreviousTag ==
    /\ pc = "VerifyPreviousTag"
    /\ Enter("VerifyPreviousTag")
    /\ StageEnds("VerifyPreviousTag", "PrepareTag",
                 verify_previous_tag(previous_version)
                 @@ [fs |-> fs, log |-> {}, commands |-> commands])
    /\ UNCHANGED <<layerFrame, inputs, kept, zip_name, backup_name>>

\* Step 8
PrepareTag ==
    /\ pc = "PrepareTag"
    /\ Enter("PrepareTag")
    /\ StageEnds("PrepareTag", "PrepareRelease",
                 create_git_tag(commands, version) @@ [fs |-> fs, log |-> {}])
    /\ UNCHANGED <<layerFrame, inputs, kept, zip_name, backup_name>>

\* Step 9
PrepareRelease ==
    /\ pc = "PrepareRelease"
    /\ Enter("PrepareRelease")
    /\ \E probe_gh \in ProbeOutcomes :
          StageEnds("PrepareRelease", "Render",
                    create_github_release(fs, commands, version, zip_name, probe_gh))
    /\ UNCHANGED <<layerFrame, inputs, kept, zip_name, backup_name>>

\* Step 10, and the return of run
Render ==
    /\ pc = "Render"
    /\ Enter("Render")
    /\ transcript' = transcript \o print_all_commands(commands)
    /\ renders' = IF commands = <<>> THEN renders ELSE renders + 1
    /\ Return("Completed")
    /\ UNCHANGED <<layerFrame, inputs, fs, version, previous_version, mod_name, zip_name,
                   backup_name, commands, executed, fs_log, answer>>

\* Ctrl-C while the run is at a stage
Interrupt ==
    /\ pc \in StageSet
    /\ Raise("KeyboardInterrupt", "interrupt")
    /\ UNCHANGED <<layerFrame, inputs, fs, version, previous_version, mod_name, zip_name,
                   backup_name, commands, executed, transcript, renders, fs_log, entered,
                   answer>>

Next ==
    \/ ValidateVersions
    \/ Package
    \/ Backup
    \/ Clean
    \/ SkipClean
    \/ RunTest
    \/ SkipTest
    \/ Confirm
    \/ PromptClosed
    \/ VerifyPreviousTag
    \/ PrepareTag
    \/ PrepareRelease
    \/ Render
    \/ Interrupt

Spec == Init /\ [][Next]_vars


----------------------------------------------------------------------------
(* extract_changelog_for_release called again and again on one change log. *)

\* the lines an entry may have after its header of three lines: a section
\* heading as the file shows it, an item, a heading without indentation, an
\* empty line
BodyLines ==
    {<<" ", " ", "C", "h", "a", "n", "g", "e", "s", ":", "\n">>,
     <<" ", " ", " ", " ", "-", " ", "a", "\n">>,
     <<"F", "i", "x", "e", "s", ":", "\n">>,
     <<"\n">>}

\* the most lines after the header
MaxBody == 3

\* the well-formed change logs of one entry
SingleEntryLogs ==
    {<<"-", "-", "-", "-", "\n">> \o s_Version_colon \o <<" ">> \o s_200
        \o <<"\n", "D", "a", "t", "e", ":", " ", "1", "\n">> \o Concat(body) :
        body \in UNION {[1..k -> BodyLines] : k \in 0..MaxBody}}

\* what the project holds of earlier extractions: nothing, the tmp
\* directory, a scratch file of another text, a scratch file that is a link
\* to the change log
Scratches == {"none", "tmp", "stale", "link to changelog"}

ScratchNodes(proj, scratch) ==
    CASE scratch = "tmp" -> (proj \o <<s_tmp>>) :> DirNode
      [] scratch = "stale" ->
            (proj \o <<s_tmp>>) :> DirNode
            @@ (proj \o <<s_tmp, s_changes_txt>>) :> FileNode(Text(s_orig))
      [] scratch = "link to changelog" ->
            (proj \o <<s_tmp>>) :> DirNode
            @@ (proj \o <<s_tmp, s_changes_txt>>) :> LinkNode(proj \o <<s_changelog_txt>>)
      [] OTHER -> <<>>

ExtractTrees(proj) ==
    {ProjectTree(proj, [present |-> TRUE, json |-> Info(s_mod, s_200)],
                 [present |-> TRUE, text |-> t], "none", FALSE)
     @@ ScratchNodes(proj, scratch) :
        t \in SingleEntryLogs, scratch \in Scratches}

InitExtract ==
    /\ project_dir = <<s_a, s_p>>
    /\ InitDirs
    /\ fs \in ExtractTrees(project_dir)
    /\ pre_fs = fs
    /\ last = NoCall
    /\ nops = 0
    /\ skip_factorio = FALSE
    /\ skip_clean = FALSE
    /\ factorio_path = <<>>
    /\ tags = {}
    /\ pc = "idle"
    /\ InitBuilder

\* the call has ended as out: what it returned and what it left
ExtractEnds(out) ==
    /\ fs' = out.fs
    /\ last' = [NoCall EXCEPT !.op = "extract", !.path = ChangesPath, !.res = out.res,
                              !.err = out.why,
                              !.content = IF out.res = "ok" THEN out.text ELSE <<>>]

CallExtract ==
    /\ nops < MaxOps
    /\ nops' = nops + 1
    /\ pre_fs' = fs
    /\ ExtractEnds(extract_changelog_for_release(fs))
    /\ UNCHANGED <<project_dir, output_dir, runVars>>

SpecExtract == InitExtract /\ [][CallExtract]_vars

----------------------------------------------------------------------------
(* Properties of the file layer. *)

RECURSIVE IsSelfOrBeneath(_, _)
\* p is root, or root is met stepping from p to its parents
IsSelfOrBeneath(p, root) ==
    IF p = root THEN TRUE
    ELSE IF p = <<>> THEN FALSE
    ELSE IsSelfOrBeneath(Parent(p), root)

\* p lies exactly one component below root
IsDirectChild(p, root) == Len(p) = Len(root) + 1 /\ Parent(p) = root

\* the canonical form of the last call's target, in the filesystem the call saw
LastCanonical == Resolve(pre_fs, last.path)

\* C1: a delete (safe_unlink, safe_rmtree) whose target's canonical form is
\* ProjectRoot/.git or beneath it fails with a safety error (BuildError) and
\* leaves the filesystem as it was, however the target was spelled.
C1_DeleteInGitFails ==
    (last.op \in {"unlink", "rmtree"} /\ IsSelfOrBeneath(LastCanonical, GitDir))
        => (last.res = "BuildError" /\ fs = pre_fs)

\* C1 witness: after earlier calls, safe_unlink was refused on .git/HEAD
\* spelled through the link l or through a ".." detour.
C1_Witness ==
    /\ last.op = "unlink"
    /\ last.path \in {project_dir \o <<s_l, s_HEAD>>,
                      project_dir \o <<s_d, s_dotdot, s_git, s_HEAD>>}
    /\ LastCanonical = GitDir \o <<s_HEAD>>
    /\ last.res = "BuildError"
    /\ nops > 1

\* C2: after any sequence of calls of the four operations every
\* file and directory of ProjectRoot/.git still exists with its content.
C2_GitNeverTouched ==
    \A q \in DOMAIN LayerTree(project_dir) :
        IsSelfOrBeneath(q, GitDir)
            => (q \in DOMAIN fs /\ fs[q] = LayerTree(project_dir)[q])

\* C3: project-root validation with the protected-subtree check disabled
\* succeeds iff the canonical form of the path is ProjectRoot or a descendant
\* of it by components; the sibling p2 of p is rejected.
C3_ProjectValidation ==
    (last.op = "validate_project" /\ last.allow_git)
        => /\ (last.res = "ok") <=> IsSelfOrBeneath(LastCanonical, project_dir)
           /\ last.res \in {"ok", "BuildError"}
           /\ IsSelfOrBeneath(LastCanonical, output_dir \o <<s_p2>>)
                  => last.res = "BuildError"

\* C3 witness: the sibling p2, or a path beneath it, was validated against
\* the project root p and rejected.
C3_Witness ==
    /\ last.op = "validate_project"
    /\ last.allow_git
    /\ IsSelfOrBeneath(LastCanonical, output_dir \o <<s_p2>>)
    /\ last.res = "BuildError"

\* C4: output-directory validation accepts a target iff its
\* canonical form is a direct child of OutputRoot; OutputRoot itself and
\* targets nested deeper are rejected.
C4_OutputValidation ==
    (last.op = "validate_output")
        => /\ (last.res = "ok") <=> IsDirectChild(LastCanonical, output_dir)
           /\ LastCanonical = output_dir => last.res = "BuildError"

\* C5: safe_write changes the filesystem only at a canonical
\* target inside ProjectRoot and outside .git, or a direct child of
\* OutputRoot; for every other target it raises a safety error (BuildError)
\* and the filesystem is as it was.  A target inside .git is refused.
C5_WriteOnlyWhereAllowed ==
    (last.op = "write")
        => LET c == LastCanonical
               allowed ==
                   \/ IsSelfOrBeneath(c, project_dir) /\ ~IsSelfOrBeneath(c, GitDir)
                   \/ IsDirectChild(c, output_dir)
           IN  IF allowed
               THEN \/ last.res = "ok"
                       /\ fs = With(pre_fs, c, FileNode(Text(last.content)))
                    \/ last.res = "OSError" /\ fs = pre_fs
               ELSE last.res = "BuildError" /\ fs = pre_fs

----------------------------------------------------------------------------
(* Properties of a run. *)

Range(s) == {s[i] : i \in 1..Len(s)}

IsProbe(argv) == argv \in {<<s_7z, s_help>>, <<s_7za, s_help>>, <<s_gh, s_version_flag>>}
IsArchiver(argv) == Len(argv) >= 2 /\ argv[1] \in {s_7z, s_7za} /\ argv[2] = <<"a">>
IsTest(argv) == argv = <<PathStr(factorio_path)>>
IsTagListing(argv) == Len(argv) = 4 /\ SubSeq(argv, 1, 3) = <<s_git_cmd, s_tag, s_dash_l>>
\* the command line a queued command stands for
QueuedArgv(cmd) == <<cmd.type>> \o cmd.args

\* C6: every command the process has executed is a probe of a tool, the
\* archiver, the test executable or the listing of a tag, and none of them
\* is a command of the queue: nothing that tags, pushes or publishes is run.
C6_NothingRemoteExecuted ==
    \A i \in 1..Len(executed) :
        /\ \/ IsProbe(executed[i].argv)
           \/ IsArchiver(executed[i].argv)
           \/ IsTest(executed[i].argv)
           \/ IsTagListing(executed[i].argv)
        /\ \A j \in 1..Len(commands) : executed[i].argv # QueuedArgv(commands[j])

\* a completed run: three commands are queued, and tags were listed
C6_Witness ==
    /\ pc = "Completed"
    /\ Len(commands) = 3
    /\ \E i \in 1..Len(executed) : IsTagListing(executed[i].argv)

StageIndex(s) == CHOOSE i \in 1..Len(Stages) : Stages[i] = s
Skipped(s) == (s = "Clean" /\ skip_clean) \/ (s = "RunTest" /\ skip_factorio)

\* the stages are entered in the fixed order, none twice, none that is
\* skipped, and each after all the stages before it that are not skipped;
\* what a run has done was done by a stage it entered
EnteredInOrder ==
    /\ \A i, j \in 1..Len(entered) :
          i < j => StageIndex(entered[i]) < StageIndex(entered[j])
    /\ \A i \in 1..Len(entered) :
          /\ ~Skipped(entered[i])
          /\ \A k \in 1..(StageIndex(entered[i]) - 1) :
                Skipped(Stages[k]) \/ \E j \in 1..(i - 1) : entered[j] = Stages[k]
    /\ \A m \in fs_log : m.stage \in Range(entered)
    /\ commands # <<>> => "PrepareTag" \in Range(entered)
    /\ renders > 0 => "Render" \in Range(entered)
    /\ error # NoError => pc = "AbortedOnError"

\* C7: the stages are entered in the fixed order ValidateVersions, Package,
\* Backup, Clean (or skip), RunTest (or skip), Confirm, VerifyPreviousTag,
\* PrepareTag, PrepareRelease, Render, each at most once and only after the
\* earlier ones returned; once a stage has failed no stage is entered, the
\* filesystem is not changed, nothing is queued, executed or rendered.
C7_StagesInOrder ==
    /\ []EnteredInOrder
    /\ [][error # NoError =>
            UNCHANGED <<entered, fs, fs_log, commands, executed, transcript, renders>>]_vars

\* a run that went through the first four stages and failed in the test run
C7_Witness ==
    /\ pc = "AbortedOnError"
    /\ error.kind = "BuildError"
    /\ entered = <<"ValidateVersions", "Package", "Backup", "Clean", "RunTest">>

\* the answer is not y or yes, whatever its case and the space around it
Declined == answer # None /\ Lower(Strip(answer)) \notin {s_y, s_yes}

\* C8: an answer other than y or yes ends the run as aborted by the user
\* with the queue empty, no tag listed, no scratch file written and nothing
\* rendered; up to and including the confirmation the queue is empty.
C8_DeclineLeavesNothing ==
    /\ Declined =>
          /\ pc = "AbortedByUser"
          /\ commands = <<>>
          /\ \A i \in 1..Len(executed) : ~IsTagListing(executed[i].argv)
          /\ \A m \in fs_log : m.path # ChangesPath /\ m.stage # "PrepareRelease"
          /\ transcript = <<>>
          /\ renders = 0
    /\ "VerifyPreviousTag" \notin Range(entered) => commands = <<>>

\* the user typed yy
C8_Witness == answer = <<"y", "y">> /\ pc = "AbortedByUser" /\ Len(executed) > 0

\* C9: the exit status is 0 exactly when the run completed or the user
\* declined, and not 0 when it ended by a build error, an unexpected error
\* or an interrupt; it is set exactly when the run has ended.
C9_ExitStatus ==
    /\ exit_status # -1 <=> pc \in Terminal
    /\ pc \in Terminal =>
          (exit_status = 0 <=> pc \in {"Completed", "AbortedByUser"})
    /\ pc = "AbortedOnError" =>
          /\ error.kind \in {"BuildError", "Exception", "KeyboardInterrupt"}
          /\ exit_status # 0
    /\ pc \in {"Completed", "AbortedByUser"} => error = NoError

\* a run ended by an unexpected error
C9_Witness == pc = "AbortedOnError" /\ error.kind = "Exception" /\ exit_status = 1

\* a version with the leading v put before it when it has none
Normalized(ver) == IF StartsWith(ver, s_v) THEN ver ELSE s_v \o ver

RECURSIVE TopEntry(_)
\* the version of the first Version: line of the lines
TopEntry(lines) ==
    IF lines = <<>> THEN None
    ELSE IF StartsWith(Head(lines), s_Version_colon)
    THEN Strip(SubSeq(Head(lines), Len(s_Version_colon) + 1, Len(Head(lines))))
    ELSE TopEntry(Tail(lines))

\* the versions the run started with: that of info.json, that of the top
\* entry of changelog.txt
InfoPath == project_dir \o <<s_info_json>>
ChangelogPath == project_dir \o <<s_changelog_txt>>
HasBothVersions ==
    /\ IsFile(pre_fs, InfoPath)
    /\ pre_fs[InfoPath].data.json.has_version
    /\ pre_fs[InfoPath].data.json.has_name
    /\ IsFile(pre_fs, ChangelogPath)
    /\ TopEntry(SplitLines(pre_fs[ChangelogPath].data.text, 1)) # None
MetadataVersion == Normalized(pre_fs[InfoPath].data.json.version)
ChangelogVersion == Normalized(TopEntry(SplitLines(pre_fs[ChangelogPath].data.text, 1)))

\* C10: when the normalized version of info.json differs from that of the
\* top entry of changelog.txt, the run ends in ValidateVersions with the
\* version-mismatch error, the filesystem as it was and the queue empty.
C10_MismatchAborts ==
    (HasBothVersions /\ MetadataVersion # ChangelogVersion /\ Len(entered) > 0) =>
        /\ pc = "AbortedOnError"
        /\ error = [kind |-> "BuildError", why |-> "version mismatch"]
        /\ entered = <<"ValidateVersions">>
        /\ fs = pre_fs
        /\ fs_log = {}
        /\ commands = <<>>

\* the stage the run entered last
LastEntered == IF entered = <<>> THEN "" ELSE entered[Len(entered)]

\* C11: when a previous version was read from the change log and git tag -l
\* lists no tag of that name, the run ends in VerifyPreviousTag with a build
\* error, the queue empty and nothing rendered; when no previous version was
\* read, the stage returns and executes nothing.
C11_PreviousTagRequired ==
    /\ []((/\ "VerifyPreviousTag" \in Range(entered)
           /\ previous_version # None
           /\ previous_version \notin tags)
          => /\ pc = "AbortedOnError"
             /\ error = [kind |-> "BuildError", why |-> "previous tag not found"]
             /\ LastEntered = "VerifyPreviousTag"
             /\ commands = <<>>
             /\ transcript = <<>>
             /\ renders = 0)
    /\ [][(pc = "VerifyPreviousTag" /\ previous_version = None /\ entered' # entered)
            => (pc' = "PrepareTag" /\ executed' = executed)]_vars

\* the previous version v1.0.0 was listed and the repository has no such tag
C11_Witness ==
    /\ pc = "AbortedOnError"
    /\ LastEntered = "VerifyPreviousTag"
    /\ previous_version = s_v100
    /\ s_v100 \notin tags
    /\ executed # <<>>
    /\ executed[Len(executed)].argv = <<s_git_cmd, s_tag, s_dash_l, s_v100>>

\* C12: when git tag -l lists the tag of the current version as PrepareTag
\* starts, the run ends there with a build error; the queue is empty at the
\* abort and afterwards, and nothing is rendered.
C12_ExistingTagAborts ==
    ("PrepareTag" \in Range(entered) /\ version \in tags)
        => /\ pc = "AbortedOnError"
           /\ error = [kind |-> "BuildError", why |-> "tag exists"]
           /\ LastEntered = "PrepareTag"
           /\ commands = <<>>
           /\ transcript = <<>>
           /\ renders = 0

\* the tag v2.0.0 exists, the previous tag was found, and the run ended in
\* PrepareTag
C12_Witness ==
    /\ pc = "AbortedOnError"
    /\ LastEntered = "PrepareTag"
    /\ version = s_v200
    /\ previous_version = s_v100
    /\ tags = {s_v100, s_v200}
    /\ executed[Len(executed)].argv = <<s_git_cmd, s_tag, s_dash_l, s_v200>>

\* queue before is the beginning of queue after
IsPrefix(before, after) ==
    Len(before) <= Len(after) /\ SubSeq(after, 1, Len(before)) = before

\* the line print_all_commands prints for a command
CommandLine(cmd) == Join(<<" ">>, QueuedArgv(cmd))

\* the command lines of the transcript, in the order they were printed
s_git_sp == s_git_cmd \o <<" ">>
s_gh_sp == s_gh \o <<" ">>
IsCommandLine(line) == StartsWith(line, s_git_sp) \/ StartsWith(line, s_gh_sp)
RenderedCommands == SelectSeq(transcript, IsCommandLine)

\* git_command and gh_command put one command after those of the queue
EnqueueAppends ==
    /\ git_command(commands, <<s_x>>, <<>>) = commands \o <<Command(s_git_cmd, <<s_x>>, <<>>)>>
    /\ gh_command(commands, <<s_x>>, <<>>) = commands \o <<Command(s_gh, <<s_x>>, <<>>)>>

\* the transcript of a completed run: the creation of the tag, its push, the
\* publication of the release, each the line of the queued command at that
\* position
RenderedInOrder ==
    pc = "Completed" =>
        /\ Len(commands) = 3
        /\ RenderedCommands = [i \in 1..3 |-> CommandLine(commands[i])]
        /\ commands[1].type = s_git_cmd /\ commands[1].args[1] = s_tag
        /\ commands[2].type = s_git_cmd /\ commands[2].args[1] = s_push
        /\ commands[3].type = s_gh /\ SubSeq(commands[3].args, 1, 2) = <<s_release, s_create>>

\* C13: the queue only grows at its end: every step leaves the commands
\* already queued as they were and where they were, rendering leaves the
\* queue as it is, and the transcript of a completed run lists the creation
\* of the tag, then its push, then the publication of the release.
C13_QueueAppendOnly ==
    /\ [](EnqueueAppends /\ RenderedInOrder)
    /\ [][IsPrefix(commands, commands')]_vars
    /\ [][(transcript' # transcript \/ renders' # renders) => commands' = commands]_vars

\* a completed run whose queue of three commands was rendered once
C13_Witness ==
    /\ pc = "Completed"
    /\ renders = 1
    /\ Len(RenderedCommands) = 3
    /\ RenderedCommands[1] = CommandLine(commands[1])

\* Cleanup has returned and the run is about to go on with the test
CleanReturned == pc = "RunTest" /\ LastEntered = "Clean"

\* a project directory that holds .git and one regular file
OneFileTree ==
    [q \in Ancestors(project_dir) |-> DirNode]
    @@ GitDir :> DirNode
    @@ (GitDir \o <<s_HEAD>>) :> FileNode(Text(s_ref))
    @@ (project_dir \o <<s_f>>) :> FileNode(Text(s_orig))

\* cleaning the project directory of .git and one file removes the file,
\* keeps .git and raises nothing
OneFileCleaned ==
    \A order \in Listings(OneFileTree) :
        /\ clean_project_directory(OneFileTree, order).res = "ok"
        /\ clean_project_directory(OneFileTree, order).fs
               = Without(OneFileTree, {project_dir \o <<s_f>>})

\* C14: when Cleanup returns, the project directory holds .git and nothing
\* else, whatever kind its entries were; .git and what is under it are as
\* they were; every removal was made by safe_unlink or safe_rmtree; a
\* project directory of .git and one regular file ends with .git alone.
C14_CleanupRemovesAll ==
    /\ CleanReturned =>
          /\ \A q \in DOMAIN pre_fs :
                IsSelfOrBeneath(q, GitDir) => (q \in DOMAIN fs /\ fs[q] = pre_fs[q])
          /\ Children(fs, project_dir) = {GitDir}
          /\ \A m \in fs_log :
                m.stage = "Clean" => m.route \in {"safe_unlink", "safe_rmtree"}
    /\ OneFileCleaned

\* the four operations of SafeFileOps that change the filesystem
GatedRoutes == {"safe_unlink", "safe_rmtree", "safe_write", "safe_mkdir"}

\* C15: every change a run makes to the filesystem (the package archive,
\* the backup archive, the entries Cleanup deletes, the tmp directory, the
\* scratch file) is made by safe_unlink, safe_rmtree, safe_write or
\* safe_mkdir, and by no other route.
C15_AllMutationsGated ==
    \A m \in fs_log : m.route \in GatedRoutes

\* v, then three components of digits with a dot between them, and nothing else
IsStrictVersion(ver) ==
    /\ StartsWith(ver, s_v)
    /\ LET parts == SplitAt(Tail(ver), 1, ".")
       IN  /\ Len(parts) = 3
           /\ \A i \in 1..3 : parts[i] # <<>> /\ Range(parts[i]) \subseteq Digits

\* C16: the run goes on to Package only if the version of info.json and the
\* version text of the top Version: entry of changelog.txt, each with a v
\* put before it when it has none, are v and three dot-separated components
\* of digits and nothing else, and are the same; 1.2, 1.2.3a or a version
\* with a space after it in either file stops the run.
C16_StrictVersions ==
    pc = "Package" =>
        /\ HasBothVersions
        /\ IsStrictVersion(MetadataVersion)
        /\ IsStrictVersion(ChangelogVersion)
        /\ MetadataVersion = ChangelogVersion

\* the archive Package writes, and what it holds for the tree the run
\* started with
ZipPath == PathJoin(output_dir, zip_name)
PackageOfStart ==
    Archive({ArchivePath(mod_name \o s_underscore \o VersionNumber(version), p) :
                p \in PackagedFiles(pre_fs)})

\* C17: when the transcript is rendered and in the completed run after it,
\* the last command of the queue is gh release create with the path of the
\* package archive and, after -F, the path of the scratch file; the archive
\* exists as Package wrote it in this run, and the scratch file exists and
\* holds the text extracted from the change log.
C17_ReleaseFilesExist ==
    pc \in {"Render", "Completed"} =>
        /\ Len(commands) = 3
        /\ commands[3].type = s_gh
        /\ commands[3].args =
              <<s_release, s_create, version, PathStr(ZipPath),
                s_dash_t, s_Version_sp \o version, s_dash_F, PathStr(ChangesPath)>>
        /\ [stage |-> "Package", route |-> "ZipFile", path |-> ZipPath] \in fs_log
        /\ ZipPath \in DOMAIN fs
        /\ fs[ZipPath] = FileNode(PackageOfStart)
        /\ [stage |-> "PrepareRelease", route |-> "safe_write", path |-> ChangesPath]
              \in fs_log
        /\ ChangesPath \in DOMAIN fs
        /\ fs[ChangesPath] = FileNode(Text(ChangelogText(pre_fs[ChangelogPath].data.text)))

\* a completed run on a change log of two entries: the scratch file holds
\* the changes of the first one
C17_Witness ==
    /\ pc = "Completed"
    /\ previous_version = s_v100
    /\ IsFile(fs, ZipPath)
    /\ IsFile(fs, ChangesPath)
    /\ fs[ChangesPath].data.text # <<>>
    /\ PathStr(ChangesPath) \in Range(commands[3].args)

\* the last call was an extraction that returned its text
Extracted == last.op = "extract" /\ last.res = "ok"

\* the call left the change log as it was and changed nothing but the tmp
\* directory and the scratch file
OnlyScratchWritten ==
    /\ ChangelogPath \in DOMAIN fs
    /\ fs[ChangelogPath] = pre_fs[ChangelogPath]
    /\ \A q \in (DOMAIN fs) \cup (DOMAIN pre_fs) :
          q \notin {TmpDir, ChangesPath} =>
              (q \in DOMAIN fs /\ q \in DOMAIN pre_fs /\ fs[q] = pre_fs[q])

\* an extraction that follows an extraction returns the text the first
\* returned
SameTextAgain ==
    (Extracted /\ last'.op = "extract" /\ last'.res = "ok" /\ nops' = nops + 1)
        => last'.content = last.content

ScratchIsChangelog == Resolve(fs, ChangesPath) = Resolve(fs, ChangelogPath)

PackageReturned == pc = "Backup" /\ LastEntered = "Package"

\* the files of the project the run started with that are not inside the
\* project's own .git, scripts or tmp directory and whose names do not end
\* in .zip, .7z or ~
FilesToPackage ==
    {p \in DOMAIN pre_fs :
        /\ Len(p) > Len(project_dir)
        /\ IsRelativeTo(p, project_dir)
        /\ ~IsDir(pre_fs, p)
        /\ ~(Len(p) > Len(project_dir) + 1 /\ p[Len(project_dir) + 1] \in {s_git, s_scripts, s_tmp})
        /\ ~EndsWith(Name(p), s_dot_zip)
        /\ ~EndsWith(Name(p), s_dot_7z)
        /\ ~EndsWith(Name(p), s_tilde)}

\* C19: the archive Package has built holds an entry for exactly the files
\* under the project directory that are not inside its .git, scripts or tmp
\* directory and do not end in .zip, .7z or ~; a file in a directory named
\* scripts deeper in the tree, lib/scripts/x, is in the archive.
C19_PackageContents ==
    PackageReturned =>
        /\ IsFile(fs, ZipPath)
        /\ fs[ZipPath].data.entries =
              {ArchivePath(mod_name \o s_underscore \o VersionNumber(version), p) :
                  p \in FilesToPackage}

\* the validation of a delete passes for the canonical target c
DeleteAllowed(c) == IsSelfOrBeneath(c, project_dir) /\ ~IsSelfOrBeneath(c, GitDir)

\* c is, in the filesystem the call saw, an entry of the kind
KindBefore(c, kind) == c \in DOMAIN pre_fs /\ pre_fs[c].kind = kind

\* a delete that needs its target to be of the kind: it removes removed
\* when the validation and the type check pass, and otherwise raises a build
\* error and leaves the filesystem as it was
DeleteFrame(kind, removed) ==
    IF DeleteAllowed(LastCanonical) /\ KindBefore(LastCanonical, kind)
    THEN last.res = "ok" /\ fs = Without(pre_fs, removed)
    ELSE last.res = "BuildError" /\ fs = pre_fs

\* C20: safe_unlink removes its validated target only when that is an
\* existing plain file, safe_rmtree only when it is an existing directory;
\* when the validation or the type check fails the call raises and the
\* filesystem is exactly as it was before the call.
C20_DeleteFrame ==
    /\ last.op = "unlink" => DeleteFrame("file", {LastCanonical})
    /\ last.op = "rmtree" => DeleteFrame("dir", Subtree(pre_fs, LastCanonical))
    /\ (last.op \in {"unlink", "rmtree"} /\ last.res # "ok") => fs = pre_fs

\* after an earlier call, safe_rmtree was refused on the plain file f and
\* safe_unlink on the directory d or on an entry that does not exist
C20_Witness ==
    /\ nops = 2
    /\ last.res = "BuildError"
    /\ DeleteAllowed(LastCanonical)
    /\ fs = pre_fs
    /\ \/ last.op = "rmtree" /\ KindBefore(LastCanonical, "file")
       \/ last.op = "unlink" /\ KindBefore(LastCanonical, "dir")
       \/ last.op = "unlink" /\ LastCanonical \notin DOMAIN pre_fs

\* the Backup stage was left by an exception of its own
BackupFailed ==
    pc = "AbortedOnError" /\ LastEntered = "Backup" /\ error.kind # "KeyboardInterrupt"

\* the path of the backup archive passes the validation of the output directory
BackupPathValid ==
    IsDirectChild(Resolve(fs, PathJoin(output_dir, backup_name)), output_dir)

\* how the probe of an archiver ended, "" when it was not probed
ProbeEnded(cmd) ==
    IF \E i \in 1..Len(executed) : executed[i].argv = <<cmd, s_help>>
    THEN executed[CHOOSE i \in 1..Len(executed) : executed[i].argv = <<cmd, s_help>>].outcome
    ELSE ""

\* the runs of an archiver, in the order they were made
ArchiverRuns == SelectSeq(executed, LAMBDA r : IsArchiver(r.argv))

\* C21: with a backup path that passes the validation, the Backup stage
\* fails exactly when neither 7z nor 7za answers its probe or the archiver
\* that was selected exits with a status other than 0; when 7z does not
\* answer and 7za does, 7za is run and the stage succeeds exactly when it
\* exits with 0; with a backup path that fails the validation nothing is
\* probed and no archiver is run.
C21_BackupFailure ==
    "Backup" \in Range(entered) =>
        IF ~BackupPathValid
        THEN BackupFailed /\ executed = <<>>
        ELSE /\ ProbeEnded(s_7z) # ""
             /\ ProbeEnded(s_7z) = "0" <=> ProbeEnded(s_7za) = ""
             /\ Len(ArchiverRuns) <= 1
             /\ ArchiverRuns = <<>> <=> (ProbeEnded(s_7z) # "0" /\ ProbeEnded(s_7za) # "0")
             /\ BackupFailed <=> (ArchiverRuns = <<>> \/ ArchiverRuns[1].outcome # "0")
             /\ ArchiverRuns # <<>> =>
                   ArchiverRuns[1].argv[1] = (IF ProbeEnded(s_7z) = "0" THEN s_7z ELSE s_7za)

\* 7z is not installed, 7za is, and 7za made the backup
C21_Witness ==
    /\ pc = "Clean"
    /\ LastEntered = "Backup"
    /\ ProbeEnded(s_7z) = "FileNotFoundError"
    /\ ProbeEnded(s_7za) = "0"
    /\ Len(ArchiverRuns) = 1
    /\ ArchiverRuns[1].argv[1] = s_7za
    /\ ArchiverRuns[1].outcome = "0"

\* one of the things went wrong that a run needs to go right: the versions,
\* the package, the backup, the cleanup, the test, the confirmation, the
\* previous tag, the tag of the version, the gh tool; or the run was
\* interrupted
SomethingWentWrong ==
    \/ pc = "AbortedByUser"
    \/ /\ pc = "AbortedOnError"
       /\ \/ error.kind = "KeyboardInterrupt"
          \/ LastEntered # "PrepareRelease"
          \/ error.why = "gh not found"

\* the run has completed and has rendered the three commands
CompletedWithThree ==
    /\ pc = "Completed"
    /\ renders = 1
    /\ Len(commands) = 3
    /\ Len(RenderedCommands) = 3

\* C22: with or without the cleanup and the test, a run in which the
\* versions are valid and equal, package and backup succeed, the cleanup
\* raises no safety error, the test exits with 0, the user confirms, the
\* previous tag exists, the tag of the version does not and gh is installed
\* ends only as Completed, with the three commands rendered (every run
\* ends: each stage is entered once and moves on or aborts); the change
\* log is still a file when PrepareRelease starts after a cleanup.
C22_EventuallyCompleted ==
    /\ pc \in Terminal => (CompletedWithThree \/ SomethingWentWrong)
    /\ (pc = "PrepareRelease" /\ "Clean" \in Range(entered)) => IsFile(fs, ChangelogPath)

\* the regular files of the project directory that were there when the run
\* started and are gone
DeletedFromProject ==
    {p \in DOMAIN pre_fs :
        /\ Len(p) > Len(project_dir)
        /\ IsRelativeTo(p, project_dir)
        /\ pre_fs[p].kind = "file"
        /\ p \notin DOMAIN fs}

\* the entries of the backup archive, as paths relative to the project
\* directory
BackupEntries ==
    IF IsFile(fs, PathJoin(output_dir, backup_name))
    THEN fs[Resolve(fs, PathJoin(output_dir, backup_name))].data.entries
    ELSE {}

\* C23: Cleanup is entered only right after a Backup stage of the same run
\* whose archiver ended with status 0, and every regular file that is gone
\* from the project directory once Cleanup was entered is an entry of the
\* backup archive, files named *.zip or *.7z included.
C23_CleanupAfterBackup ==
    "Clean" \in Range(entered) =>
        /\ \E i \in 1..(Len(entered) - 1) :
              entered[i] = "Backup" /\ entered[i + 1] = "Clean"
        /\ Len(ArchiverRuns) = 1
        /\ ArchiverRuns[1].outcome = "0"
        /\ \A p \in DeletedFromProject :
              SubSeq(p, Len(project_dir) + 1, Len(p)) \in BackupEntries

\* the stages a run goes through from the confirmation to the transcript
LastStages == <<"Confirm", "VerifyPreviousTag", "PrepareTag", "PrepareRelease", "Render">>

\* something of the queue has been printed
Rendered == transcript # <<>> \/ renders > 0

\* the queue was printed by a run that went through the last stages, each
\* once and none failing, and holds three commands
RenderedAfterAll ==
    /\ pc = "Completed"
    /\ renders = 1
    /\ confirm_proceed(answer)
    /\ Len(entered) >= Len(LastStages)
    /\ SubSeq(entered, Len(entered) - Len(LastStages) + 1, Len(entered)) = LastStages
    /\ \A i, j \in 1..Len(entered) : entered[i] = entered[j] => i = j
    /\ Len(commands) = 3
    /\ transcript = print_all_commands(commands)
    /\ Len(RenderedCommands) = 3

\* C24: the queue is printed at most once in a run, by the Render step
\* alone and only after ConfirmWithUser, VerifyPreviousTagExists,
\* PrepareVersionControlCommands and PrepareReleaseCommands have all
\* succeeded; when it is printed it holds exactly three commands; a run
\* that aborts, with commands queued or without, prints none of them.
C24_RenderedOnceAfterAll ==
    /\ [](renders <= 1)
    /\ [](Rendered => RenderedAfterAll)
    /\ [](pc \in {"AbortedOnError", "AbortedByUser"} => ~Rendered)
    /\ [][(transcript' # transcript \/ renders' # renders)
            => (pc = "Render" /\ renders = 0 /\ transcript = <<>> /\ Len(commands) = 3)]_vars

\* gh is not installed: the run has aborted in PrepareRelease with the two
\* tag commands queued and has printed nothing
C24_Witness ==
    /\ pc = "AbortedOnError"
    /\ LastEntered = "PrepareRelease"
    /\ error = [kind |-> "BuildError", why |-> "gh not found"]
    /\ Len(commands) = 2
    /\ ~Rendered

====
